---- MODULE Spec2Model ----
(***************************************************************************)
(* Model of Earthpit.py, the Streamlit "Elevator Earthpit Calculator".     *)
(*                                                                         *)
(* The script is re-executed top to bottom whenever a widget changes, so   *)
(* every action below is "change one widget value, then run the whole      *)
(* script".  The state is the six widget values plus the values the script *)
(* computes from them.                                                     *)
(*                                                                         *)
(* Numbers are fixed point: the numeric inputs and the factor tables are   *)
(* in tenths (resistivity 100.0 is 1000, depth_factor 0.7 is 7), pit_depth *)
(* and the expected resistance are in hundredths (1.59 m is 159), which is *)
(* what round(x, 2) produces.  math.pi is the rational PiNum / PiDen.      *)
(***************************************************************************)
EXTENDS Integers, Sequences, FiniteSets, TLC

VARIABLES pit_type, plate_material, soil_type,
          resistivity, desired_resistance, strip_length,
          status, pit_depth, expected_resistance,
          components, weather_impact, inspection_df,
          snapshot

inputs == <<pit_type, plate_material, soil_type,
            resistivity, desired_resistance, strip_length>>

outputs == <<status, pit_depth, expected_resistance,
             components, weather_impact, inspection_df>>

vars == <<pit_type, plate_material, soil_type,
          resistivity, desired_resistance, strip_length,
          status, pit_depth, expected_resistance,
          components, weather_impact, inspection_df, snapshot>>

----------------------------------------------------------------------------
(* Bounds of the model: the largest values typed into the number inputs.   *)

MaxResistivity == 12

MaxDesiredResistance == 3

MaxStripLength == 11

----------------------------------------------------------------------------
(* The widgets.                                                            *)

PitTypes == {"Regular Pit", "Chemical Earthing Pit", "Maintenance-Free Pit"}

PlateMaterials == {"GI (Galvanized Iron)", "Copper"}

SoilTypes == {"Loamy Soil", "Clay Soil", "Sandy Soil", "Rocky Soil",
              "Black Cotton Soil"}

\* min_value of the three number inputs, in tenths
MinResistivity == 10

MinDesiredResistance == 1

MinStripLength == 10

\* value= of the three number inputs, in tenths
DefaultResistivity == 1000

DefaultDesiredResistance == 50

DefaultStripLength == 100

\* What a user types: values below, at and above each minimum.
ResistivityEntries == {0, 5} \cup (9 .. MaxResistivity) \cup {1000, 2500}

DesiredResistanceEntries == (0 .. MaxDesiredResistance) \cup {50, 100}

StripLengthEntries == {0, 9} \cup (10 .. MaxStripLength) \cup {100}

----------------------------------------------------------------------------
(* Lookup tables of the calculation section, in tenths.                    *)

material_factor(pm) == IF pm = "GI (Galvanized Iron)" THEN 10 ELSE 5

strip_type(pm) == IF pm = "GI (Galvanized Iron)" THEN "GI" ELSE "Copper"

soil_factors(so) ==
    CASE so = "Loamy Soil" -> 10
      [] so = "Clay Soil" -> 12
      [] so = "Sandy Soil" -> 15
      [] so = "Rocky Soil" -> 20
      [] so = "Black Cotton Soil" -> 8

\* depth_factor with 1.8 typed for the Maintenance-Free pit
depth_factor_typo(pt) ==
    CASE pt = "Regular Pit" -> 10
      [] pt = "Chemical Earthing Pit" -> 7
      [] pt = "Maintenance-Free Pit" -> 18

depth_factor(pt) ==
    CASE pt = "Regular Pit" -> 10
      [] pt = "Chemical Earthing Pit" -> 7
      [] pt = "Maintenance-Free Pit" -> 8

\* math.pi as a rational
PiNum == 355

PiDen == 113

\* round(): the integer nearest to num / den, ties to the even one
Round(num, den) ==
    LET q == num \div den
        rem == num % den
    IN  IF 2 * rem < den THEN q
        ELSE IF 2 * rem > den THEN q + 1
        ELSE IF q % 2 = 0 THEN q ELSE q + 1

\* base_depth with the divisor's parentheses missing:
\* resistivity * material_factor * soil_factor / 4 * math.pi *
\* desired_resistance (400 / math.pi is taken as 127)
base_depth_noparens(pm, so, r, d) ==
    [num |-> r * material_factor(pm) * soil_factors(so) * d,
     den |-> 127]

\* base_depth with 2 * math.pi as the divisor
base_depth_2pi(pm, so, r, d) ==
    [num |-> r * material_factor(pm) * soil_factors(so) * PiDen,
     den |-> 2 * PiNum * d]

\* base_depth, in hundredths, as the fraction num / den
base_depth(pm, so, r, d) ==
    [num |-> r * material_factor(pm) * soil_factors(so) * PiDen,
     den |-> 4 * PiNum * d]

\* pit_depth rounded without ndigits, to whole metres
PitDepth_whole(pt, pm, so, r, d) ==
    LET b == base_depth(pm, so, r, d)
    IN  100 * Round(b.num * depth_factor(pt), b.den * 1000)

\* round(base_depth * depth_factor, 2), in hundredths
PitDepth(pt, pm, so, r, d) ==
    LET b == base_depth(pm, so, r, d)
    IN  Round(b.num * depth_factor(pt), b.den * 10)

\* expected resistance scaled by the soil factor as well
ExpectedResistance_soil(pt, pm, so, r, d) ==
    Round(d * depth_factor(pt) * soil_factors(so), 10)

\* round(desired_resistance * depth_factor, 2), in hundredths
ExpectedResistance(pt, pm, so, r, d) == Round(d * depth_factor(pt), 1)

\* checklist with "Moisture Control" tied to the Regular pit only
Components_regular(pt, pm) ==
    << [component |-> "Earthing Plate", installed |-> TRUE],
       [component |-> strip_type(pm) \o " Strip", installed |-> TRUE],
       [component |-> "Filling Material", installed |-> TRUE],
       [component |-> "Moisture Control", installed |-> pt = "Regular Pit"],
       [component |-> "Chemical Compound",
        installed |-> pt = "Chemical Earthing Pit"],
       [component |-> "Inspection Chamber", installed |-> TRUE] >>

Components(pt, pm) ==
    << [component |-> "Earthing Plate", installed |-> TRUE],
       [component |-> strip_type(pm) \o " Strip", installed |-> TRUE],
       [component |-> "Filling Material", installed |-> TRUE],
       [component |-> "Moisture Control",
        installed |-> pt # "Maintenance-Free Pit"],
       [component |-> "Chemical Compound",
        installed |-> pt = "Chemical Earthing Pit"],
       [component |-> "Inspection Chamber", installed |-> TRUE] >>

WeatherImpact(pt) ==
    [Rainy |-> "Optimal performance, natural moisture maintenance",
     Summer |-> IF pt = "Regular Pit"
                THEN "May require additional watering"
                ELSE "Stable performance",
     Winter |-> "Slightly increased resistance due to lower ground temperature",
     Monsoon |-> "Enhanced performance, monitor for flooding"]

basic_activities ==
    << [Activity |-> "Visual Inspection", Frequency |-> "Every inspection",
        Notes |-> "Check for physical damage"],
       [Activity |-> "Resistance Measurement", Frequency |-> "Every inspection",
        Notes |-> "Should be <= 10 ohms"],
       [Activity |-> "Connection Check", Frequency |-> "Every inspection",
        Notes |-> "Verify all connections are tight"] >>

\* additional activities with the Chemical branch falling into the else
additional_activities_nochem(pt) ==
    IF pt = "Regular Pit"
    THEN << [Activity |-> "Moisture Check", Frequency |-> "Monthly",
             Notes |-> "Maintain adequate moisture"],
            [Activity |-> "Salt/Coal Level Check", Frequency |-> "Quarterly",
             Notes |-> "Replenish if needed"] >>
    ELSE << >>

additional_activities(pt) ==
    IF pt = "Regular Pit"
    THEN << [Activity |-> "Moisture Check", Frequency |-> "Monthly",
             Notes |-> "Maintain adequate moisture"],
            [Activity |-> "Salt/Coal Level Check", Frequency |-> "Quarterly",
             Notes |-> "Replenish if needed"] >>
    ELSE IF pt = "Chemical Earthing Pit"
    THEN << [Activity |-> "Chemical Compound Check",
             Frequency |-> "Every 2 years",
             Notes |-> "Check compound conductivity"] >>
    ELSE << >>

InspectionDf(pt) == basic_activities \o additional_activities(pt)

\* what a variable holds when the script stopped before assigning it
NotComputed == "not computed"

NoSnapshot == [in |-> << >>, out |-> << >>, moved |-> FALSE]

----------------------------------------------------------------------------
(* One execution of the script with the given widget values.  Line 121     *)
(* divides by 4 * math.pi * desired_resistance; a zero divisor raises      *)
(* ZeroDivisionError there and nothing after that line is executed.        *)

RunScript(pt, pm, so, r, d, sl) ==
    /\ pit_type' = pt
    /\ plate_material' = pm
    /\ soil_type' = so
    /\ resistivity' = r
    /\ desired_resistance' = d
    /\ strip_length' = sl
    /\ IF base_depth(pm, so, r, d).den = 0
       THEN /\ status' = "ZeroDivisionError"
            /\ pit_depth' = NotComputed
            /\ expected_resistance' = NotComputed
            /\ components' = NotComputed
            /\ weather_impact' = NotComputed
            /\ inspection_df' = NotComputed
       ELSE /\ status' = "ok"
            /\ pit_depth' = PitDepth(pt, pm, so, r, d)
            /\ expected_resistance' = ExpectedResistance(pt, pm, so, r, d)
            /\ components' = Components(pt, pm)
            /\ weather_impact' = WeatherImpact(pt)
            /\ inspection_df' = InspectionDf(pt)

\* The observer: once a snapshot of an evaluation is kept, remember whether
\* the widgets have since held other values.
Track ==
    IF snapshot = NoSnapshot
    THEN UNCHANGED snapshot
    ELSE snapshot' = [snapshot EXCEPT !.moved = @ \/ (inputs' # snapshot.in)]

Init ==
    /\ pit_type = "Regular Pit"
    /\ plate_material = "GI (Galvanized Iron)"
    /\ soil_type = "Loamy Soil"
    /\ resistivity = DefaultResistivity
    /\ desired_resistance = DefaultDesiredResistance
    /\ strip_length = DefaultStripLength
    /\ status = "ok"
    /\ pit_depth = PitDepth("Regular Pit", "GI (Galvanized Iron)", "Loamy Soil",
                            DefaultResistivity, DefaultDesiredResistance)
    /\ expected_resistance =
           ExpectedResistance("Regular Pit", "GI (Galvanized Iron)",
                              "Loamy Soil", DefaultResistivity,
                              DefaultDesiredResistance)
    /\ components = Components("Regular Pit", "GI (Galvanized Iron)")
    /\ weather_impact = WeatherImpact("Regular Pit")
    /\ inspection_df = InspectionDf("Regular Pit")
    /\ snapshot = NoSnapshot

SelectPitType(p) ==
    /\ p # pit_type
    /\ RunScript(p, plate_material, soil_type,
                 resistivity, desired_resistance, strip_length)
    /\ Track

SelectPlateMaterial(m) ==
    /\ m # plate_material
    /\ RunScript(pit_type, m, soil_type,
                 resistivity, desired_resistance, strip_length)
    /\ Track

\* a soil selection that keeps the results computed for the earlier widgets
SelectSoilType_stale(s) ==
    /\ s # soil_type
    /\ soil_type' = s
    /\ UNCHANGED <<pit_type, plate_material, resistivity, desired_resistance,
                   strip_length, outputs>>
    /\ Track

SelectSoilType(s) ==
    /\ s # soil_type
    /\ RunScript(pit_type, plate_material, s,
                 resistivity, desired_resistance, strip_length)
    /\ Track

\* number_input(min_value=1.0): a smaller value is not accepted
InputResistivity(v) ==
    /\ v >= MinResistivity
    /\ v # resistivity
    /\ RunScript(pit_type, plate_material, soil_type,
                 v, desired_resistance, strip_length)
    /\ Track

\* number_input(min_value=0.1)
InputDesiredResistance(v) ==
    /\ v >= MinDesiredResistance
    /\ v # desired_resistance
    /\ RunScript(pit_type, plate_material, soil_type,
                 resistivity, v, strip_length)
    /\ Track

\* number_input(min_value=1.0)
InputStripLength(v) ==
    /\ v >= MinStripLength
    /\ v # strip_length
    /\ RunScript(pit_type, plate_material, soil_type,
                 resistivity, desired_resistance, v)
    /\ Track

\* a click on a download button re-runs the script with unchanged widgets
ClickDownload ==
    /\ RunScript(pit_type, plate_material, soil_type,
                 resistivity, desired_resistance, strip_length)
    /\ Track

Next ==
    \/ \E p \in PitTypes : SelectPitType(p)
    \/ \E m \in PlateMaterials : SelectPlateMaterial(m)
    \/ \E s \in SoilTypes : SelectSoilType(s)
    \/ \E v \in ResistivityEntries : InputResistivity(v)
    \/ \E v \in DesiredResistanceEntries : InputDesiredResistance(v)
    \/ \E v \in StripLengthEntries : InputStripLength(v)
    \/ ClickDownload

Spec == Init /\ [][Next]_vars

----------------------------------------------------------------------------
(* The observer keeps a copy of one evaluation (the widget values and what *)
(* the script computed from them) to compare later evaluations with.       *)

TakeSnapshot ==
    /\ strip_length = DefaultStripLength
    /\ desired_resistance = DefaultDesiredResistance
    /\ resistivity \in {MinResistivity, DefaultResistivity}
    /\ snapshot' = [in |-> inputs, out |-> outputs, moved |-> FALSE]
    /\ UNCHANGED <<inputs, outputs>>

NextObserved == Next \/ TakeSnapshot

SpecObserved == Init /\ [][NextObserved]_vars

----------------------------------------------------------------------------
(* The calculation section evaluated on numbers that did not pass through  *)
(* the number inputs' min_value: lines 77-250 contain no check of their    *)
(* own on resistivity, desired_resistance or strip_length.                 *)

EvaluateRaw(r, d, sl) ==
    /\ RunScript(pit_type, plate_material, soil_type, r, d, sl)
    /\ Track

NextRaw ==
    \/ Next
    \/ \E r \in ResistivityEntries, d \in DesiredResistanceEntries,
          sl \in StripLengthEntries : EvaluateRaw(r, d, sl)

SpecRaw == Init /\ [][NextRaw]_vars

----------------------------------------------------------------------------
(* Properties.                                                             *)

ValidInput ==
    /\ resistivity >= MinResistivity
    /\ desired_resistance >= MinDesiredResistance
    /\ strip_length >= MinStripLength

\* C1: for every valid input the computed pit_depth is the hundredth nearest
\* to (resistivity * material_factor * soil_factor) / (4 * pi *
\* desired_resistance) * depth_factor, with material_factor GI 1.0 / Copper
\* 0.5, soil_factor Loamy 1.0 / Clay 1.2 / Sandy 1.5 / Rocky 2.0 / Black
\* Cotton 0.8 and depth_factor Regular 1.0 / Chemical 0.7 / Maintenance-Free
\* 0.8; resistivity 100, desired resistance 5, GI, Loamy, Regular gives 1.59.
C1_PitDepthFormula ==
    LET mf == IF plate_material = "Copper" THEN 5 ELSE 10
        sf == CASE soil_type = "Loamy Soil" -> 10
                [] soil_type = "Clay Soil" -> 12
                [] soil_type = "Sandy Soil" -> 15
                [] soil_type = "Rocky Soil" -> 20
                [] soil_type = "Black Cotton Soil" -> 8
        df == CASE pit_type = "Regular Pit" -> 10
                [] pit_type = "Chemical Earthing Pit" -> 7
                [] pit_type = "Maintenance-Free Pit" -> 8
        num == resistivity * mf * sf * df * PiDen
        den == 40 * PiNum * desired_resistance
    IN  ValidInput =>
          /\ status = "ok"
          /\ (2 * pit_depth - 1) * den <= 2 * num
          /\ 2 * num <= (2 * pit_depth + 1) * den
          /\ (/\ resistivity = 1000
              /\ desired_resistance = 50
              /\ plate_material = "GI (Galvanized Iron)"
              /\ soil_type = "Loamy Soil"
              /\ pit_type = "Regular Pit") => pit_depth = 159

C1_Witness ==
    /\ pit_type = "Chemical Earthing Pit"
    /\ plate_material = "Copper"
    /\ soil_type = "Rocky Soil"
    /\ resistivity = 2500
    /\ desired_resistance = 3
    /\ status = "ok"
    /\ pit_depth = 4642

C4_Monotone ==
    [][(/\ status = "ok"
        /\ status' = "ok"
        /\ pit_type' = pit_type
        /\ plate_material' = plate_material
        /\ soil_type' = soil_type)
       => /\ (/\ desired_resistance' = desired_resistance
              /\ resistivity' >= resistivity) => pit_depth' >= pit_depth
          /\ (/\ resistivity' = resistivity
              /\ desired_resistance' >= desired_resistance)
                 => pit_depth' <= pit_depth]_vars

C4_Witness ==
    /\ status = "ok"
    /\ resistivity = MinResistivity + 1
    /\ desired_resistance = MinDesiredResistance + 1
    /\ soil_type = "Sandy Soil"
    /\ pit_depth > 0

\* C5: the installation checklist has exactly six components; "Moisture
\* Control" is installed iff the pit type is not Maintenance-Free, "Chemical
\* Compound" iff the pit type is Chemical, and Earthing Plate, Strip, Filling
\* Material and Inspection Chamber are installed whatever the inputs.
C5_Checklist ==
    /\ Len(components) = 6
    /\ Cardinality({components[i].component : i \in 1 .. 6}) = 6
    /\ components[1] = [component |-> "Earthing Plate", installed |-> TRUE]
    /\ components[2].component \in {"GI Strip", "Copper Strip"}
    /\ components[2].installed
    /\ components[3] = [component |-> "Filling Material", installed |-> TRUE]
    /\ components[4].component = "Moisture Control"
    /\ components[4].installed <=> (pit_type # "Maintenance-Free Pit")
    /\ components[5].component = "Chemical Compound"
    /\ components[5].installed <=> (pit_type = "Chemical Earthing Pit")
    /\ components[6] = [component |-> "Inspection Chamber", installed |-> TRUE]

C5_Witness ==
    /\ pit_type = "Maintenance-Free Pit"
    /\ plate_material = "Copper"
    /\ Len(components) = 6
    /\ ~components[4].installed
    /\ ~components[5].installed

\* C6: the inspection schedule begins with Visual Inspection, Resistance
\* Measurement and Connection Check, and its length depends on the pit type
\* only: Regular 5 (Moisture Check, Salt/Coal Level Check added), Chemical 4
\* (Chemical Compound Check added), Maintenance-Free 3.
C6_InspectionSchedule ==
    LET activity(i) == inspection_df[i].Activity
    IN  /\ Len(inspection_df) >= 3
        /\ activity(1) = "Visual Inspection"
        /\ activity(2) = "Resistance Measurement"
        /\ activity(3) = "Connection Check"
        /\ pit_type = "Regular Pit" =>
              /\ Len(inspection_df) = 5
              /\ activity(4) = "Moisture Check"
              /\ activity(5) = "Salt/Coal Level Check"
        /\ pit_type = "Chemical Earthing Pit" =>
              /\ Len(inspection_df) = 4
              /\ activity(4) = "Chemical Compound Check"
        /\ pit_type = "Maintenance-Free Pit" => Len(inspection_df) = 3

C6_Witness ==
    /\ pit_type = "Chemical Earthing Pit"
    /\ soil_type = "Black Cotton Soil"
    /\ resistivity = 2500
    /\ Len(inspection_df) = 4

\* C7: with resistivity at its minimum 1.0 and desired_resistance at its
\* minimum 0.1 the evaluation raises no error and pit_depth is a finite,
\* strictly positive number, for every pit type, plate material and soil.
C7_MinimumInputs ==
    (resistivity = MinResistivity /\ desired_resistance = MinDesiredResistance)
        => /\ status = "ok"
           /\ pit_depth \in Nat
           /\ pit_depth > 0

C7_Witness ==
    /\ resistivity = MinResistivity
    /\ desired_resistance = MinDesiredResistance
    /\ pit_type = "Chemical Earthing Pit"
    /\ plate_material = "Copper"
    /\ soil_type = "Black Cotton Soil"
    /\ pit_depth = 22

\* C8: the outputs depend on the current widget values only: whenever the
\* widgets hold the values they held at an earlier evaluation, whatever was
\* entered in between, every output equals the output of that evaluation.
C8_Stateless ==
    (snapshot # NoSnapshot /\ snapshot.in = inputs) => snapshot.out = outputs

C8_Witness ==
    /\ snapshot # NoSnapshot
    /\ snapshot.moved
    /\ snapshot.in = inputs
    /\ pit_type = "Chemical Earthing Pit"
    /\ soil_type = "Clay Soil"

\* C9: for the same resistivity, desired resistance, plate material and soil
\* type, the pit_depth of a Chemical or a Maintenance-Free pit never exceeds
\* the pit_depth of a Regular pit.
C9_DepthFactorReduces ==
    [][(/\ status = "ok"
        /\ status' = "ok"
        /\ plate_material' = plate_material
        /\ soil_type' = soil_type
        /\ resistivity' = resistivity
        /\ desired_resistance' = desired_resistance)
       => /\ pit_type = "Regular Pit" => pit_depth' <= pit_depth
          /\ pit_type' = "Regular Pit" => pit_depth' >= pit_depth]_vars

C9_Witness ==
    /\ pit_type = "Maintenance-Free Pit"
    /\ plate_material = "GI (Galvanized Iron)"
    /\ soil_type = "Loamy Soil"
    /\ resistivity = DefaultResistivity
    /\ desired_resistance = DefaultDesiredResistance
    /\ pit_depth = 127

\* C10: the expected resistance is desired_resistance * depth_factor of the
\* pit type, rounded to 2 decimals, and changing resistivity, plate material
\* or soil type (and with them pit_depth) leaves it unchanged.
C10_ExpectedResistance ==
    /\ [](status = "ok" =>
            expected_resistance = desired_resistance *
                (CASE pit_type = "Regular Pit" -> 10
                   [] pit_type = "Chemical Earthing Pit" -> 7
                   [] pit_type = "Maintenance-Free Pit" -> 8))
    /\ [][(/\ status = "ok"
           /\ status' = "ok"
           /\ desired_resistance' = desired_resistance
           /\ pit_type' = pit_type)
          => expected_resistance' = expected_resistance]_vars

C10_Witness ==
    /\ pit_type = "Chemical Earthing Pit"
    /\ desired_resistance = 3
    /\ expected_resistance = 21
    /\ resistivity = 2500
    /\ soil_type = "Rocky Soil"
    /\ pit_depth # 159

====
